---- MODULE Spec2Model ----
(***************************************************************************)
(* tiny-cart: users, products, images, order lines and bearer tokens.      *)
(* Tables are functions from the primary keys of the rows that exist to    *)
(* the rows. Every handler of the REST API is an operator from the state   *)
(* and the request to the state and the response, and one action applies   *)
(* it; the statements of OrderCrud.create are separate actions in the      *)
(* concurrent specification.                                               *)
(***************************************************************************)
EXTENDS Integers, Sequences, FiniteSets, TLC

\* ---------------------------------------------------------------- bounds
MaxUsers == 2
MaxProducts == 2
MaxOrders == 2
MaxBlobs == 2
MaxStock == 2
MaxItems == 2
MaxTime == 1
MaxTokens == 2
MaxRounds == 2

\* settings.access_token_expire_minutes, in ticks of the model's clock
TokenLife == 1

UserIds == 1..MaxUsers
ProductIds == 1..MaxProducts
OrderIds == 1..MaxOrders
BlobIds == 1..MaxBlobs

\* A primary key that no row has (a well-formed UUID naming nothing).
NoId == 0

Roles == {"buyer", "seller"}
Emails == {"a@x", "b@x"}
Usernames == {"ann", "bob"}
PlainPasswords == {"pw1", "pw2"}

\* number_in_stock and quantity are plain ints in the schemas, with no lower
\* bound. The stock levels a seller sends, and the quantities a buyer sends.
StockInputs == 0..MaxStock
Quantities == (0 - 1)..MaxStock

VARIABLES
    users,      \* user_id -> [email, username, role, password]
    products,   \* product_id -> [product_owner_id, in_stock, number_in_stock]
    orders,     \* order_id -> [product_id, user_id, quantity]
    images,     \* file path of an Image row -> product_id
    blobs,      \* the files in UPLOAD_FOLDER
    ids,        \* how many primary keys / file names uuid4() has handed out
    issued,     \* the access tokens handed to clients
    now,        \* the clock
    resp,       \* the response to the last request
    reqs        \* the createOrder requests in flight (concurrent specification)

vars == <<users, products, orders, images, blobs, ids, issued, now, resp, reqs>>

\* What a handler reads and writes.
State ==
    [users |-> users, products |-> products, orders |-> orders, images |-> images,
     blobs |-> blobs, ids |-> ids, issued |-> issued, now |-> now]

\* The rows of the database.
Rows(s) == <<s.users, s.products, s.orders, s.images>>

\* ------------------------------------------------------------- passwords
\* A password value is the plain text and the number of times bcrypt was
\* applied to it: the plain text has rounds = 0, its hash rounds = 1, the
\* hash of its hash rounds = 2.
Plain(p) == [plain |-> p, rounds |-> 0]

hash_password(password) == [password EXCEPT !.rounds = @ + 1]

is_valid_password(plain_password, hashed_password) ==
    hashed_password = hash_password(plain_password)

\* ---------------------------------------------------------------- tokens
\* A claim the payload does not carry.
NoSub == 0 - 1
NoEmail == "none"

create_access_token(sub, email, t) ==
    [sub |-> sub, email |-> email, exp |-> t + TokenLife, sig |-> "valid"]

\* jwt.decode with the verification of exp switched off.
jwt_decode_exp_ignored(token, t) == token.sig = "valid"

\* jwt.decode: the signature, then exp (expired when exp <= now).
jwt_decode(token, t) == token.sig = "valid" /\ token.exp > t

\* The TokenPayload; ok is FALSE where the code raises credentials_exception.
verify_access_token(token, t) ==
    [ok |-> jwt_decode(token, t) /\ token.sub # NoSub /\ token.email # NoEmail,
     user_id |-> token.sub,
     email |-> token.email]

\* The user_id of the current user, or NoId where the code raises the 401.
get_current_user(token, us, t) ==
    LET token_data == verify_access_token(token, t)
    IN IF token_data.ok /\ token_data.user_id \in DOMAIN us
       THEN token_data.user_id
       ELSE NoId

\* What a client can present: a token login issued, or one it made up
\* (a bad signature; a claim missing).
MadeUpTokens ==
    { [sub |-> 1, email |-> "a@x", exp |-> MaxTime + TokenLife, sig |-> "invalid"],
      [sub |-> NoSub, email |-> "a@x", exp |-> MaxTime + TokenLife, sig |-> "valid"],
      [sub |-> 1, email |-> NoEmail, exp |-> MaxTime + TokenLife, sig |-> "valid"] }

Tokens == issued \cup MadeUpTokens

\* returned: the crud call returned instead of raising.
Response(op, status) == [op |-> op, status |-> status, returned |-> status < 400]

\* A handler that raises before it writes anything.
Refuse(s, op, status) == [state |-> s, resp |-> Response(op, status)]

\* A handler that answers after its writes.
Answer(s, op, status) == [state |-> s, resp |-> Response(op, status)]

\* The table without the rows whose keys are in gone.
Without(table, gone) == [k \in DOMAIN table \ gone |-> table[k]]

\* The action of a handler whose outcome is r.
Do(r) ==
    /\ users' = r.state.users
    /\ products' = r.state.products
    /\ orders' = r.state.orders
    /\ images' = r.state.images
    /\ blobs' = r.state.blobs
    /\ ids' = r.state.ids
    /\ issued' = r.state.issued
    /\ now' = r.state.now
    /\ resp' = r.resp
    /\ UNCHANGED reqs

\* ----------------------------------------------------------------- users
\* The unique indexes of the user table, for the row of user_id uid.
UniqueViolation(us, uid, row) ==
    \E other \in DOMAIN us \ {uid} :
        us[other].email = row.email \/ us[other].username = row.username

\* create_user with the password hashed by the route and again by User.save.
create_user_hashed_twice(s, email, username, role, password) ==
    LET uid == s.ids.user + 1
        row == [email |-> email, username |-> username, role |-> role,
                password |-> hash_password(hash_password(Plain(password)))]
    IN IF UniqueViolation(s.users, uid, row)
       THEN Refuse(s, "create_user", 409)
       ELSE Answer([s EXCEPT !.users = @ @@ (uid :> row), !.ids.user = uid],
                   "create_user", 201)

\* create_user on a user table without its unique indexes.
create_user_no_unique_index(s, email, username, role, password) ==
    LET uid == s.ids.user + 1
        row == [email |-> email, username |-> username, role |-> role,
                password |-> hash_password(Plain(password))]
    IN Answer([s EXCEPT !.users = @ @@ (uid :> row), !.ids.user = uid],
              "create_user", 201)

\* POST /users: no token. User.save hashes the password, then commits.
create_user(s, email, username, role, password) ==
    LET uid == s.ids.user + 1
        row == [email |-> email, username |-> username, role |-> role,
                password |-> hash_password(Plain(password))]
    IN IF UniqueViolation(s.users, uid, row)
       THEN Refuse(s, "create_user", 409)
       ELSE Answer([s EXCEPT !.users = @ @@ (uid :> row), !.ids.user = uid],
                   "create_user", 201)

CreateUser(email, username, role, password) ==
    /\ ids.user < MaxUsers
    /\ Do(create_user(State, email, username, role, password))

\* What crud answers POST /login with: the status, the detail, the token.
InvalidCredentials ==
    [status |-> 417, detail |-> "Invalid credentials",
     token |-> [sub |-> NoSub, email |-> NoEmail, exp |-> 0, sig |-> "invalid"]]

\* login with an answer of its own for an e-mail that no user has.
login_user_not_found(s, username, password) ==
    LET found == {uid \in DOMAIN s.users : s.users[uid].email = username}
    IN IF found = {}
       THEN [status |-> 404, detail |-> "User not found", token |-> InvalidCredentials.token]
       ELSE LET uid == CHOOSE u \in found : TRUE
            IN IF ~is_valid_password(Plain(password), s.users[uid].password)
               THEN InvalidCredentials
               ELSE [status |-> 201, detail |-> "Token created successfully.",
                     token |-> create_access_token(uid, s.users[uid].email, s.now)]

login(s, username, password) ==
    LET found == {uid \in DOMAIN s.users : s.users[uid].email = username}
    IN IF found = {} THEN InvalidCredentials
       ELSE LET uid == CHOOSE u \in found : TRUE
            IN IF ~is_valid_password(Plain(password), s.users[uid].password)
               THEN InvalidCredentials
               ELSE [status |-> 201, detail |-> "Token created successfully.",
                     token |-> create_access_token(uid, s.users[uid].email, s.now)]

\* The client keeps the token it is sent.
Login(username, password) ==
    LET answer == login(State, username, password)
    IN /\ answer.status = 201 /\ answer.token \notin issued
             => Cardinality(issued) < MaxTokens
       /\ Do([state |-> [State EXCEPT !.issued =
                            IF answer.status = 201 THEN @ \cup {answer.token} ELSE @],
              resp |-> Response("login", answer.status)])

\* A schema value holds the fields the request set, and only those.
sqlmodel_update(row, schema) ==
    [f \in DOMAIN row |-> IF f \in DOMAIN schema THEN schema[f] ELSE row[f]]

NoFields == [f \in {} |-> TRUE]

\* The UserUpdate bodies that set at most one field.
UserUpdates ==
    {NoFields}
    \cup {[email |-> e] : e \in Emails}
    \cup {[username |-> n] : n \in Usernames}
    \cup {[role |-> r] : r \in Roles}

\* APICrudBase.update on the user table; User.save hashes self.password.
\* PUT /users/me (user_id = the caller) and PUT /users/{user_id}.
update_user(s, token, user_id, schema) ==
    LET caller == get_current_user(token, s.users, s.now)
        row == sqlmodel_update(s.users[user_id], schema)
        saved == [row EXCEPT !.password = hash_password(@)]
    IN IF caller = NoId THEN Refuse(s, "update_user", 401)
       ELSE IF user_id \notin DOMAIN s.users THEN Refuse(s, "update_user", 404)
       ELSE IF caller # user_id THEN Refuse(s, "update_user", 403)
       ELSE IF UniqueViolation(s.users, user_id, saved) THEN Refuse(s, "update_user", 400)
       ELSE Answer([s EXCEPT !.users[user_id] = saved], "update_user", 200)

UpdateUser(token, user_id, schema) ==
    LET r == update_user(State, token, user_id, schema)
    IN /\ \A u \in DOMAIN r.state.users : r.state.users[u].password.rounds <= MaxRounds
       /\ Do(r)

\* The rows session.delete(user) loads through User.products and User.orders
\* and, the relationships having no delete cascade, sets the foreign key of
\* to NULL before it deletes the user.
OwnedProducts(s, uid) ==
    {p \in DOMAIN s.products : s.products[p].product_owner_id = uid}
PlacedOrders(s, uid) ==
    {o \in DOMAIN s.orders : s.orders[o].user_id = uid}

\* delete_user without the comparison of the target with the caller.
delete_user_any_caller(s, token, user_id) ==
    LET caller == get_current_user(token, s.users, s.now)
    IN IF caller = NoId THEN Refuse(s, "delete_user", 401)
       ELSE IF user_id \notin DOMAIN s.users THEN Refuse(s, "delete_user", 404)
       ELSE IF OwnedProducts(s, user_id) \cup PlacedOrders(s, user_id) # {}
       THEN Refuse(s, "delete_user", 500)
       ELSE Answer([s EXCEPT !.users = Without(@, {user_id})], "delete_user", 204)

\* APICrudBase.delete on the user table: DELETE /users/me and
\* DELETE /users/{user_id}. product_owner_id and order.user_id are NOT NULL:
\* the flush fails when a child row exists, and nothing catches the error.
delete_user(s, token, user_id) ==
    LET caller == get_current_user(token, s.users, s.now)
    IN IF caller = NoId THEN Refuse(s, "delete_user", 401)
       ELSE IF user_id \notin DOMAIN s.users THEN Refuse(s, "delete_user", 404)
       ELSE IF caller # user_id THEN Refuse(s, "delete_user", 403)
       ELSE IF OwnedProducts(s, user_id) \cup PlacedOrders(s, user_id) # {}
       THEN Refuse(s, "delete_user", 500)
       ELSE Answer([s EXCEPT !.users = Without(@, {user_id})], "delete_user", 204)

DeleteUser(token, user_id) == Do(delete_user(State, token, user_id))

\* GET /users/me
get_me(s, token) ==
    IF get_current_user(token, s.users, s.now) = NoId
    THEN Refuse(s, "get_me", 401)
    ELSE Answer(s, "get_me", 200)

GetMe(token) == Do(get_me(State, token))

Tick ==
    /\ now < MaxTime
    /\ now' = now + 1
    /\ UNCHANGED <<users, products, orders, images, blobs, ids, issued, resp, reqs>>

\* --------------------------------------------------------------- catalog
\* save_image: one new file per upload, named by a fresh uuid4().
NewBlobs(s, k) == (s.ids.blob + 1)..(s.ids.blob + k)

save_images(s, k) ==
    [s EXCEPT !.blobs = @ \cup NewBlobs(s, k), !.ids.blob = @ + k]

\* add_product_images_to_database: one Image row per path.
add_product_images_to_database(imgs, paths, product_id) ==
    imgs @@ [b \in paths |-> product_id]

\* create_product with the uploads saved before the role is looked at.
create_product_uploads_first(s, token, in_stock, number_in_stock, k) ==
    LET caller == get_current_user(token, s.users, s.now)
        pid == s.ids.product + 1
        row == [product_owner_id |-> caller, in_stock |-> in_stock,
                number_in_stock |-> number_in_stock]
        saved == save_images(s, k)
    IN IF caller = NoId THEN Refuse(s, "create_product", 401)
       ELSE IF s.users[caller].role # "seller" THEN Refuse(saved, "create_product", 403)
       ELSE Answer([saved EXCEPT
                        !.products = @ @@ (pid :> row),
                        !.images = add_product_images_to_database(@, NewBlobs(s, k), pid),
                        !.ids.product = pid],
                   "create_product", 201)

\* POST /products. The form fields in_stock and number_in_stock are taken
\* as sent; images is a required field: k >= 1 files.
create_product(s, token, in_stock, number_in_stock, k) ==
    LET caller == get_current_user(token, s.users, s.now)
        pid == s.ids.product + 1
        row == [product_owner_id |-> caller, in_stock |-> in_stock,
                number_in_stock |-> number_in_stock]
        saved == save_images(s, k)
    IN IF caller = NoId THEN Refuse(s, "create_product", 401)
       ELSE IF s.users[caller].role # "seller" THEN Refuse(s, "create_product", 403)
       ELSE Answer([saved EXCEPT
                        !.products = @ @@ (pid :> row),
                        !.images = add_product_images_to_database(@, NewBlobs(s, k), pid),
                        !.ids.product = pid],
                   "create_product", 201)

CreateProduct(token, in_stock, number_in_stock, k) ==
    /\ ids.product < MaxProducts
    /\ ids.blob + k <= MaxBlobs
    /\ Do(create_product(State, token, in_stock, number_in_stock, k))

\* The ProductUpdate bodies: in_stock and number_in_stock, each sent or not.
ProductUpdates ==
    {NoFields}
    \cup {[in_stock |-> b] : b \in BOOLEAN}
    \cup {[number_in_stock |-> n] : n \in StockInputs}
    \cup {[in_stock |-> TRUE, number_in_stock |-> n] : n \in StockInputs}

\* ProductCrud.update without the comparison of the owner with the caller.
ProductCrud_update_any_owner(s, product_id, product, image_paths) ==
    IF product_id \notin DOMAIN s.products
    THEN [raised |-> 404, state |-> s]
    ELSE [raised |-> 0,
          state |-> [s EXCEPT
              !.products[product_id] = sqlmodel_update(@, product),
              !.images = add_product_images_to_database(@, image_paths, product_id)]]

\* ProductCrud.update: the status it raises (0 when it returns) and the state.
\* product is the ProductUpdate the route builds: the fields sent and
\* product_owner_id, the caller.
ProductCrud_update(s, product_id, product, image_paths) ==
    IF product_id \notin DOMAIN s.products
    THEN [raised |-> 404, state |-> s]
    ELSE IF product.product_owner_id # s.products[product_id].product_owner_id
    THEN [raised |-> 403, state |-> s]
    ELSE [raised |-> 0,
          state |-> [s EXCEPT
              !.products[product_id] = sqlmodel_update(@, product),
              !.images = add_product_images_to_database(@, image_paths, product_id)]]

\* PUT /products/{product_id}: the uploads are saved before crud is called.
update_product(s, token, product_id, fields, k) ==
    LET owner == get_current_user(token, s.users, s.now)
        product == fields @@ [product_owner_id |-> owner]
        r == ProductCrud_update(save_images(s, k), product_id, product, NewBlobs(s, k))
    IN IF owner = NoId THEN Refuse(s, "update_product", 401)
       ELSE Answer(r.state, "update_product", IF r.raised = 0 THEN 200 ELSE r.raised)

UpdateProduct(token, product_id, fields, k) ==
    /\ ids.blob + k <= MaxBlobs
    /\ Do(update_product(State, token, product_id, fields, k))

ProductImages(imgs, product_id) == {b \in DOMAIN imgs : imgs[b] = product_id}
ProductOrders(os, product_id) == {o \in DOMAIN os : os[o].product_id = product_id}

\* delete_image: the paths os.remove does not find (FileNotFoundError,
\* suppressed).
NotFoundFiles(s, product_id) == ProductImages(s.images, product_id) \ s.blobs

\* delete_product without the deletion of the order lines of the product.
delete_product_orders_kept(s, token, product_id) ==
    LET current_user == get_current_user(token, s.users, s.now)
    IN IF current_user = NoId THEN Refuse(s, "delete_product", 401)
       ELSE IF product_id \notin DOMAIN s.products THEN Refuse(s, "delete_product", 404)
       ELSE IF current_user # s.products[product_id].product_owner_id
       THEN Refuse(s, "delete_product", 403)
       ELSE Answer([s EXCEPT
                        !.blobs = @ \ ProductImages(s.images, product_id),
                        !.images = Without(@, ProductImages(s.images, product_id)),
                        !.products = Without(@, {product_id})],
                   "delete_product", 204)

\* ProductCrud.delete, DELETE /products/{product_id}: the image files and
\* rows, the order lines, then the product.
delete_product(s, token, product_id) ==
    LET current_user == get_current_user(token, s.users, s.now)
    IN IF current_user = NoId THEN Refuse(s, "delete_product", 401)
       ELSE IF product_id \notin DOMAIN s.products THEN Refuse(s, "delete_product", 404)
       ELSE IF current_user # s.products[product_id].product_owner_id
       THEN Refuse(s, "delete_product", 403)
       ELSE [state |-> [s EXCEPT
                        !.blobs = @ \ ProductImages(s.images, product_id),
                        !.images = Without(@, ProductImages(s.images, product_id)),
                        !.orders = Without(@, ProductOrders(s.orders, product_id)),
                        !.products = Without(@, {product_id})],
             resp |-> Response("delete_product", 204)
                        @@ [not_found |-> NotFoundFiles(s, product_id)]]

DeleteProduct(token, product_id) == Do(delete_product(State, token, product_id))

\* A file of UPLOAD_FOLDER is removed behind the application's back.
LoseBlob(b) ==
    /\ b \in blobs
    /\ blobs' = blobs \ {b}
    /\ UNCHANGED <<users, products, orders, images, ids, issued, now, resp, reqs>>

\* ---------------------------------------------------------------- orders
\* verify_product_stock without its comparison of the stock with the quantity.
verify_product_stock_flag_only(product, quantity) ==
    IF product.in_stock = FALSE THEN 409 ELSE 0

\* verify_product_stock with the quantity compared before in_stock is read.
verify_product_stock_quantity_first(product, quantity) ==
    IF product.number_in_stock < quantity THEN 400
    ELSE IF product.in_stock = FALSE THEN 409
    ELSE 0

\* The status verify_product_stock raises, 0 when it returns.
verify_product_stock(product, quantity) ==
    IF product.in_stock = FALSE THEN 409
    ELSE IF product.number_in_stock < quantity THEN 400
    ELSE 0

\* update_product_stock without its clearing of in_stock.
update_product_stock_flag_kept(product, quantity) ==
    [product EXCEPT !.number_in_stock = @ - quantity]

update_product_stock(product, quantity) ==
    LET left == product.number_in_stock - quantity
    IN [product EXCEPT !.number_in_stock = left,
                       !.in_stock = IF left = 0 THEN FALSE ELSE @]

Items == [product_id : ProductIds \cup {NoId}, quantity : Quantities]

RECURSIVE SeqsUpTo(_, _)
SeqsUpTo(S, n) ==
    IF n = 0 THEN {<< >>}
    ELSE LET shorter == SeqsUpTo(S, n - 1)
         IN shorter \cup {Append(q, x) : q \in {t \in shorter : Len(t) = n - 1}, x \in S}

ItemLists == SeqsUpTo(Items, MaxItems)

\* OrderCrud.create with every item verified against the stock as it was
\* when the request arrived. s0 is that state.
RECURSIVE OrderCrud_create_from(_, _, _, _)
OrderCrud_create_from(s0, s, items, user_id) ==
    IF items = << >> THEN [raised |-> 0, state |-> s]
    ELSE LET order_product == Head(items)
             pid == order_product.product_id
             oid == s.ids.order + 1
             new_order_product == [product_id |-> pid, user_id |-> user_id,
                                   quantity |-> order_product.quantity]
         IN IF pid \notin DOMAIN s.products THEN [raised |-> 404, state |-> s]
            ELSE IF verify_product_stock(s0.products[pid], order_product.quantity) # 0
            THEN [raised |-> verify_product_stock(s0.products[pid], order_product.quantity),
                  state |-> s]
            ELSE OrderCrud_create_from(s0,
                    [s EXCEPT !.orders = @ @@ (oid :> new_order_product),
                              !.ids.order = oid,
                              !.products[pid] = update_product_stock(@, order_product.quantity)],
                    Tail(items), user_id)

OrderCrud_create_stale_stock(s, items, user_id) ==
    OrderCrud_create_from(s, s, items, user_id)

\* OrderCrud.create: the loop over order.orders, each statement committed as
\* it runs. raised is the status of the HTTPException that ends the loop,
\* 0 when the loop ends by itself.
RECURSIVE OrderCrud_create(_, _, _)
OrderCrud_create(s, items, user_id) ==
    IF items = << >> THEN [raised |-> 0, state |-> s]
    ELSE LET order_product == Head(items)
             pid == order_product.product_id
             oid == s.ids.order + 1
             new_order_product == [product_id |-> pid, user_id |-> user_id,
                                   quantity |-> order_product.quantity]
         IN IF pid \notin DOMAIN s.products THEN [raised |-> 404, state |-> s]
            ELSE IF verify_product_stock(s.products[pid], order_product.quantity) # 0
            THEN [raised |-> verify_product_stock(s.products[pid], order_product.quantity),
                  state |-> s]
            ELSE OrderCrud_create(
                    [s EXCEPT !.orders = @ @@ (oid :> new_order_product),
                              !.ids.order = oid,
                              !.products[pid] = update_product_stock(@, order_product.quantity)],
                    Tail(items), user_id)

\* POST /orders. The route awaits the Order that OrderCrud.create returns,
\* which is no awaitable: a TypeError, answered 500, after the commits. With
\* no items the variable the loop would have bound is returned unbound: 500.
create_order(s, token, items) ==
    LET current_user == get_current_user(token, s.users, s.now)
        r == OrderCrud_create(s, items, current_user)
    IN IF current_user = NoId THEN Refuse(s, "create_order", 401)
       ELSE [state |-> r.state,
             resp |-> [op |-> "create_order",
                       status |-> IF r.raised = 0 THEN 500 ELSE r.raised,
                       returned |-> r.raised = 0 /\ items # << >>,
                       lines |-> r.state.ids.order - s.ids.order]]

StockInRange(s) ==
    \A p \in DOMAIN s.products : s.products[p].number_in_stock <= MaxStock

CreateOrder(token, items) ==
    LET r == create_order(State, token, items)
    IN /\ ids.order + Len(items) <= MaxOrders
       /\ StockInRange(r.state)
       /\ Do(r)

\* OrderCrud.update with the quantity the line held returned to the stock of
\* its product before the item is written.
RECURSIVE OrderCrud_update_restocking(_, _, _)
OrderCrud_update_restocking(s, order_id, items) ==
    IF items = << >> THEN [raised |-> 0, state |-> s]
    ELSE LET order == Head(items)
             pid == order.product_id
             old == s.orders[order_id]
             restocked == [s EXCEPT !.products[old.product_id].number_in_stock =
                                        @ + old.quantity]
         IN IF pid \notin DOMAIN s.products THEN [raised |-> 404, state |-> s]
            ELSE IF verify_product_stock(s.products[pid], order.quantity) # 0
            THEN [raised |-> verify_product_stock(s.products[pid], order.quantity),
                  state |-> s]
            ELSE OrderCrud_update_restocking(
                    [restocked EXCEPT
                        !.orders[order_id] = sqlmodel_update(@, order),
                        !.products[pid] = update_product_stock(@, order.quantity)],
                    order_id, Tail(items))

\* The loop of OrderCrud.update: every item is verified, written onto the one
\* line and taken from the stock, each statement committed as it runs.
RECURSIVE OrderCrud_update(_, _, _)
OrderCrud_update(s, order_id, items) ==
    IF items = << >> THEN [raised |-> 0, state |-> s]
    ELSE LET order == Head(items)
             pid == order.product_id
         IN IF pid \notin DOMAIN s.products THEN [raised |-> 404, state |-> s]
            ELSE IF verify_product_stock(s.products[pid], order.quantity) # 0
            THEN [raised |-> verify_product_stock(s.products[pid], order.quantity),
                  state |-> s]
            ELSE OrderCrud_update(
                    [s EXCEPT !.orders[order_id] = sqlmodel_update(@, order),
                              !.products[pid] = update_product_stock(@, order.quantity)],
                    order_id, Tail(items))

\* PUT /orders/{order_id}
update_order(s, token, order_id, items) ==
    LET current_user == get_current_user(token, s.users, s.now)
        r == OrderCrud_update(s, order_id, items)
    IN IF current_user = NoId THEN Refuse(s, "update_order", 401)
       ELSE IF order_id \notin DOMAIN s.orders THEN Refuse(s, "update_order", 404)
       ELSE IF s.orders[order_id].user_id # current_user
       THEN Refuse(s, "update_order", 403)
       ELSE IF r.raised # 0 THEN Answer(r.state, "update_order", r.raised)
       ELSE [state |-> r.state,
             resp |-> Response("update_order", 200) @@ [items |-> Len(items)]]

UpdateOrder(token, order_id, items) ==
    LET r == update_order(State, token, order_id, items)
    IN /\ StockInRange(r.state)
       /\ Do(r)

\* delete_order without the comparison of the line's buyer with the caller.
delete_order_any_caller(s, token, order_id) ==
    LET current_user == get_current_user(token, s.users, s.now)
    IN IF current_user = NoId THEN Refuse(s, "delete_order", 401)
       ELSE IF order_id \notin DOMAIN s.orders THEN Refuse(s, "delete_order", 404)
       ELSE Answer([s EXCEPT !.orders = Without(@, {order_id})], "delete_order", 204)

\* delete_order with the quantity of the line returned to the stock.
delete_order_restocking(s, token, order_id) ==
    LET current_user == get_current_user(token, s.users, s.now)
        pid == s.orders[order_id].product_id
    IN IF current_user = NoId THEN Refuse(s, "delete_order", 401)
       ELSE IF order_id \notin DOMAIN s.orders THEN Refuse(s, "delete_order", 404)
       ELSE IF s.orders[order_id].user_id # current_user
       THEN Refuse(s, "delete_order", 403)
       ELSE Answer([s EXCEPT !.orders = Without(@, {order_id}),
                             !.products[pid].number_in_stock =
                                 @ + s.orders[order_id].quantity],
                   "delete_order", 204)

\* DELETE /orders/{order_id}
delete_order(s, token, order_id) ==
    LET current_user == get_current_user(token, s.users, s.now)
    IN IF current_user = NoId THEN Refuse(s, "delete_order", 401)
       ELSE IF order_id \notin DOMAIN s.orders THEN Refuse(s, "delete_order", 404)
       ELSE IF s.orders[order_id].user_id # current_user
       THEN Refuse(s, "delete_order", 403)
       ELSE Answer([s EXCEPT !.orders = Without(@, {order_id})], "delete_order", 204)

DeleteOrder(token, order_id) == Do(delete_order(State, token, order_id))

\* ----------------------------------------------------------------- reads
\* settings.pagination_limit and settings.pagination_default_page
pagination_limit == 100
pagination_default_page == 10

\* The limit query parameters a client sends, and the skips.
LimitInputs == {0, 1, pagination_default_page, pagination_limit, pagination_limit + 1}
SkipInputs == {0, 1}

Min(a, b) == IF a <= b THEN a ELSE b

\* offset(skip).limit(limit), and the slice [skip : skip + limit]: the keys
\* after the first skip of them, limit of them at most.
Page(keys, skip, limit) ==
    {k \in keys : LET rank == Cardinality({j \in keys : j <= k})
                  IN rank > skip /\ rank <= skip + limit}

\* APICrudBase.get_all: the limit is used as it is given.
APICrudBase_get_all(table, skip, limit) == Page(DOMAIN table, skip, limit)

\* UserCrud.get_orders and UserCrud.get_products: min(limit, pagination_limit).
UserCrud_get_orders(s, user_id, skip, limit) ==
    Page(PlacedOrders(s, user_id), skip, Min(limit, pagination_limit))
UserCrud_get_products(s, user_id, skip, limit) ==
    Page(OwnedProducts(s, user_id), skip, Min(limit, pagination_limit))

\* PaginationLimitDependency: Query(ge=1, le=settings.pagination_limit);
\* a value outside it is answered 422 before the handler runs.
ValidLimit(limit) == limit >= 1 /\ limit <= pagination_limit

Listing(status, data) == [status |-> status, data |-> data]

\* GET /products and GET /orders: no token is asked for.
get_products(s, skip, limit) ==
    IF ~ValidLimit(limit) THEN Listing(422, {})
    ELSE Listing(200, APICrudBase_get_all(s.products, skip, limit))

get_orders(s, skip, limit) ==
    IF ~ValidLimit(limit) THEN Listing(422, {})
    ELSE Listing(200, APICrudBase_get_all(s.orders, skip, limit))

\* GET /users: any current user.
get_users(s, token, skip, limit) ==
    IF get_current_user(token, s.users, s.now) = NoId THEN Listing(401, {})
    ELSE IF ~ValidLimit(limit) THEN Listing(422, {})
    ELSE Listing(200, APICrudBase_get_all(s.users, skip, limit))

\* GET /users/{user_id}/orders and /products: any current user, for any user.
get_user_orders(s, token, user_id, skip, limit) ==
    IF get_current_user(token, s.users, s.now) = NoId THEN Listing(401, {})
    ELSE IF ~ValidLimit(limit) THEN Listing(422, {})
    ELSE IF user_id \notin DOMAIN s.users THEN Listing(404, {})
    ELSE Listing(200, UserCrud_get_orders(s, user_id, skip, limit))

get_user_products(s, token, user_id, skip, limit) ==
    IF get_current_user(token, s.users, s.now) = NoId THEN Listing(401, {})
    ELSE IF ~ValidLimit(limit) THEN Listing(422, {})
    ELSE IF user_id \notin DOMAIN s.users THEN Listing(404, {})
    ELSE Listing(200, UserCrud_get_products(s, user_id, skip, limit))

\* GET /users/me/orders and GET /users/me/products
get_current_user_orders(s, token, skip, limit) ==
    get_user_orders(s, token, get_current_user(token, s.users, s.now), skip, limit)

get_my_products(s, token, skip, limit) ==
    get_user_products(s, token, get_current_user(token, s.users, s.now), skip, limit)

\* GET /orders/{order_id}: no token is asked for.
get_order(s, order_id) ==
    IF order_id \in DOMAIN s.orders THEN Listing(200, {order_id}) ELSE Listing(404, {})

\* GET /products/{product_id}/orders: no token, no limit.
get_product_order(s, product_id) ==
    IF product_id \in DOMAIN s.products
    THEN Listing(200, ProductOrders(s.orders, product_id))
    ELSE Listing(404, {})

\* ----------------------------------------------------------------- Init
Init ==
    /\ users = << >>
    /\ products = << >>
    /\ orders = << >>
    /\ images = << >>
    /\ blobs = {}
    /\ ids = [user |-> 0, product |-> 0, order |-> 0, blob |-> 0]
    /\ issued = {}
    /\ now = 0
    /\ resp = Response("none", 0)
    /\ reqs = << >>

\* The e-mail and username of the n-th signup.
EmailOf(n) == IF n = 1 THEN "a@x" ELSE "b@x"
UsernameOf(n) == IF n = 1 THEN "ann" ELSE "bob"

RoleOf(n) == IF n = 1 THEN "seller" ELSE "buyer"

\* A token that does not verify.
BadSignature == [sub |-> 1, email |-> "a@x", exp |-> MaxTime + TokenLife, sig |-> "invalid"]

\* The tokens login issued to user uid.
TokensOf(uid) == {t \in issued : t.sub = uid}

\* The bodies POST /orders and PUT /orders/{order_id} are sent: no item, any
\* one item, or two items that each name a product for a quantity >= 1.
RequestLists ==
    {items \in ItemLists :
        Len(items) >= 2 =>
            \A i \in 1..Len(items) :
                items[i].product_id # NoId /\ items[i].quantity >= 1}

\* Requests with a token that does not verify: nothing else of them is read.
Unauthenticated ==
    \/ CreateProduct(BadSignature, TRUE, 1, 1)
    \/ UpdateProduct(BadSignature, 1, NoFields, 0)
    \/ CreateOrder(BadSignature, << >>)
    \/ UpdateOrder(BadSignature, 1, << >>)
    \/ DeleteOrder(BadSignature, 1)

\* ------------------------------------------ the order engine and its stock
\* The first signup is a seller, the second a buyer; the buyer places the
\* orders, and either of them tries to change or delete any order line.
Next ==
    \/ CreateUser(EmailOf(ids.user + 1), UsernameOf(ids.user + 1), RoleOf(ids.user + 1), "pw1")
    \/ \E e \in Emails : Login(e, "pw1")
    \/ \E t \in issued, b \in BOOLEAN, n \in StockInputs : CreateProduct(t, b, n, 1)
    \/ \E t \in issued, p \in ProductIds, f \in ProductUpdates : UpdateProduct(t, p, f, 0)
    \/ \E t \in TokensOf(2), items \in RequestLists : CreateOrder(t, items)
    \/ \E o \in DOMAIN orders :
          \E t \in TokensOf(orders[o].user_id), items \in RequestLists :
             UpdateOrder(t, o, items)
    \/ \E t \in issued, o \in OrderIds : UpdateOrder(t, o, << >>)
    \/ \E t \in issued, o \in OrderIds : DeleteOrder(t, o)
    \/ Unauthenticated

Spec == Init /\ [][Next]_vars

\* ------------------------------------------------ the catalog and its owners
\* Either signup takes either role; sellers create, change and delete
\* products with their images, anyone orders one unit of a product, and a
\* user deletes their own account.
OneUnitOf == {<<[product_id |-> p, quantity |-> 1]>> : p \in ProductIds}

NextCatalog ==
    \/ \E r \in Roles :
          CreateUser(EmailOf(ids.user + 1), UsernameOf(ids.user + 1), r, "pw1")
    \/ \E e \in Emails : Login(e, "pw1")
    \/ \E t \in issued, k \in 1..MaxBlobs : CreateProduct(t, TRUE, 1, k)
    \/ \E t \in issued, p \in ProductIds, k \in 0..1 :
          UpdateProduct(t, p, [number_in_stock |-> MaxStock], k)
    \/ \E t \in issued, p \in ProductIds : DeleteProduct(t, p)
    \/ \E t \in issued, items \in OneUnitOf : CreateOrder(t, items)
    \/ \E t \in issued, u \in UserIds : DeleteUser(t, u)
    \/ \E b \in blobs : LoseBlob(b)

SpecCatalog == Init /\ [][NextCatalog]_vars

\* ------------------------------------------------------- roles that change
\* Users sign up in either role and change it; whoever holds a token tries
\* to create, change and delete products.
NextRoles ==
    \/ \E r \in Roles :
          CreateUser(EmailOf(ids.user + 1), UsernameOf(ids.user + 1), r, "pw1")
    \/ \E e \in Emails : Login(e, "pw1")
    \/ \E t \in issued, r \in Roles : UpdateUser(t, t.sub, [role |-> r])
    \/ \E t \in issued : CreateProduct(t, TRUE, 1, 1)
    \/ \E t \in issued, p \in ProductIds :
          UpdateProduct(t, p, [number_in_stock |-> MaxStock], 0)
    \/ \E t \in issued, p \in ProductIds : DeleteProduct(t, p)

SpecRoles == Init /\ [][NextRoles]_vars

\* ------------------------------------- OrderCrud.create, statement by statement
\* Each request has its own Session; session.save commits, and the commit
\* expires what the Session has loaded. reqs[r] is the request's place in
\* the loop (pc, the item i), its db_product as the Session holds it, and
\* the status it raised.
Request(user_id, items) ==
    [pc |-> "get_product", user_id |-> user_id, items |-> items, i |-> 1,
     db_product |-> [in_stock |-> FALSE, number_in_stock |-> 0], raised |-> 0]

Item(r) == reqs[r].items[reqs[r].i]

RequestStep(r, to) ==
    /\ reqs' = [reqs EXCEPT ![r] = to]
    /\ UNCHANGED <<users, images, blobs, issued, now, resp>>

\* ProductCrud().get_by_id: db.get reads the row, or raises the 404.
GetProduct(r) ==
    /\ reqs[r].pc = "get_product"
    /\ IF Item(r).product_id \in DOMAIN products
       THEN RequestStep(r, [reqs[r] EXCEPT
                !.pc = "verify",
                !.db_product = [in_stock |-> products[Item(r).product_id].in_stock,
                                number_in_stock |->
                                    products[Item(r).product_id].number_in_stock]])
       ELSE RequestStep(r, [reqs[r] EXCEPT !.pc = "done", !.raised = 404])
    /\ UNCHANGED <<products, orders, ids>>

\* verify_product_stock on the row as loaded.
VerifyStock(r) ==
    LET raised == verify_product_stock(reqs[r].db_product, Item(r).quantity)
    IN /\ reqs[r].pc = "verify"
       /\ RequestStep(r, IF raised = 0
                         THEN [reqs[r] EXCEPT !.pc = "save_order"]
                         ELSE [reqs[r] EXCEPT !.pc = "done", !.raised = raised])
       /\ UNCHANGED <<products, orders, ids>>

\* new_order_product.save(db=db, created=True): INSERT, COMMIT.
SaveOrder(r) ==
    /\ reqs[r].pc = "save_order"
    /\ ids.order < MaxOrders
    /\ orders' = orders @@ ((ids.order + 1) :>
                    [product_id |-> Item(r).product_id, user_id |-> reqs[r].user_id,
                     quantity |-> Item(r).quantity])
    /\ ids' = [ids EXCEPT !.order = @ + 1]
    /\ RequestStep(r, [reqs[r] EXCEPT !.pc = "refresh"])
    /\ UNCHANGED products

\* update_product_stock reads product.number_in_stock: the commit expired
\* db_product, so the read is a SELECT of the row as it is now. When the row
\* is gone the read raises ObjectDeletedError, which nothing catches: 500.
RefreshProduct(r) ==
    /\ reqs[r].pc = "refresh"
    /\ IF Item(r).product_id \in DOMAIN products
       THEN RequestStep(r, [reqs[r] EXCEPT
                !.pc = "save_stock",
                !.db_product = [in_stock |-> products[Item(r).product_id].in_stock,
                                number_in_stock |->
                                    products[Item(r).product_id].number_in_stock]])
       ELSE RequestStep(r, [reqs[r] EXCEPT !.pc = "done", !.raised = 500])
    /\ UNCHANGED <<products, orders, ids>>

\* product.save(db=db): the UPDATE sets the columns update_product_stock
\* changed on db_product, to the values it computed; COMMIT. Then the next
\* item, or the return. An UPDATE that matches no row raises StaleDataError,
\* which nothing catches: 500.
SaveStock(r) ==
    LET pid == Item(r).product_id
        new == update_product_stock(reqs[r].db_product, Item(r).quantity)
        changed == {f \in DOMAIN new : new[f] # reqs[r].db_product[f]}
    IN /\ reqs[r].pc = "save_stock"
       /\ IF pid \in DOMAIN products
          THEN /\ products' = [products EXCEPT ![pid] =
                      [f \in DOMAIN @ |-> IF f \in changed THEN new[f] ELSE @[f]]]
               /\ RequestStep(r, IF reqs[r].i < Len(reqs[r].items)
                                 THEN [reqs[r] EXCEPT !.pc = "get_product", !.i = @ + 1]
                                 ELSE [reqs[r] EXCEPT !.pc = "done"])
          ELSE /\ products' = products
               /\ RequestStep(r, [reqs[r] EXCEPT !.pc = "done", !.raised = 500])
       /\ UNCHANGED <<orders, ids>>

\* A seller and a buyer have signed up, the seller's product 1 has MaxStock
\* units in stock, and the buyer has sent two POST /orders for it.
InitConc ==
    /\ users = (1 :> [email |-> "a@x", username |-> "ann", role |-> "seller",
                      password |-> hash_password(Plain("pw1"))])
            @@ (2 :> [email |-> "b@x", username |-> "bob", role |-> "buyer",
                      password |-> hash_password(Plain("pw1"))])
    /\ products = (1 :> [product_owner_id |-> 1, in_stock |-> TRUE,
                         number_in_stock |-> MaxStock])
    /\ orders = << >>
    /\ images = (1 :> 1)
    /\ blobs = {1}
    /\ ids = [user |-> 2, product |-> 1, order |-> 0, blob |-> 1]
    /\ issued = {create_access_token(2, "b@x", 0)}
    /\ now = 0
    /\ resp = Response("none", 0)
    /\ \E q1, q2 \in 1..MaxStock :
          reqs = (1 :> Request(2, <<[product_id |-> 1, quantity |-> q1]>>))
              @@ (2 :> Request(2, <<[product_id |-> 1, quantity |-> q2]>>))

NextConc ==
    \/ \E r \in DOMAIN reqs : GetProduct(r)
    \/ \E r \in DOMAIN reqs : VerifyStock(r)
    \/ \E r \in DOMAIN reqs : SaveOrder(r)
    \/ \E r \in DOMAIN reqs : RefreshProduct(r)
    \/ \E r \in DOMAIN reqs : SaveStock(r)

SpecConc == InitConc /\ [][NextConc]_vars

\* ------------------------- ProductCrud.delete, commit by commit, beside a POST /orders
\* The engine is the default one, sqlite, opened with check_same_thread only:
\* no PRAGMA foreign_keys, so the FOREIGN KEY clauses of the tables are not
\* enforced and the INSERT of SaveOrder needs no product row. reqs[r] of a
\* DELETE /products/{product_id} is its place in ProductCrud.delete, the image
\* rows it selected, the order lines of db_product.orders as loaded, whether
\* a commit has expired that collection since, and the status raised.
DeleteRequest(owner_id, product_id) ==
    [pc |-> "load_product", owner_id |-> owner_id, product_id |-> product_id,
     images |-> {}, orders |-> {}, expired |-> FALSE, raised |-> 0]

\* get_by_id, the comparison of the owner, and the SELECT of the image rows.
LoadProduct(r) ==
    LET pid == reqs[r].product_id
    IN /\ reqs[r].pc = "load_product"
       /\ RequestStep(r,
             IF pid \notin DOMAIN products
             THEN [reqs[r] EXCEPT !.pc = "done", !.raised = 404]
             ELSE IF reqs[r].owner_id # products[pid].product_owner_id
             THEN [reqs[r] EXCEPT !.pc = "done", !.raised = 403]
             ELSE [reqs[r] EXCEPT !.pc = "delete_images",
                                  !.images = ProductImages(images, pid)])
       /\ UNCHANGED <<products, orders, ids>>

\* utils.delete_image(image.file_path); image.delete(db=db): DELETE, COMMIT.
DeleteImage(r) ==
    /\ reqs[r].pc = "delete_images"
    /\ \E b \in reqs[r].images :
          /\ blobs' = blobs \ {b}
          /\ images' = Without(images, {b})
          /\ reqs' = [reqs EXCEPT ![r].images = @ \ {b}]
    /\ UNCHANGED <<users, products, orders, ids, issued, now, resp>>

\* for order in db_product.orders: the collection is loaded when the loop
\* starts.
LoadOrders(r) ==
    /\ reqs[r].pc = "delete_images"
    /\ reqs[r].images = {}
    /\ RequestStep(r, [reqs[r] EXCEPT
            !.pc = "delete_orders",
            !.orders = ProductOrders(orders, reqs[r].product_id)])
    /\ UNCHANGED <<products, orders, ids>>

\* order.delete(db=db): DELETE, COMMIT; the commit expires db_product.
DeleteOrderRow(r) ==
    /\ reqs[r].pc = "delete_orders"
    /\ \E o \in reqs[r].orders :
          /\ orders' = Without(orders, {o})
          /\ RequestStep(r, [reqs[r] EXCEPT !.orders = @ \ {o}, !.expired = TRUE])
    /\ UNCHANGED <<products, ids>>

\* db_product.delete(db=db): the flush takes the rows of Product.images and
\* Product.orders (the relationships have no delete cascade) to set their
\* product_id to NULL, which the columns refuse: IntegrityError, 500, and
\* the product stays. The image rows are read now; the order lines are read
\* now when a commit expired the collection, else they are the collection
\* as loaded, which the loop left empty. With no row to detach: DELETE, COMMIT.
DeleteProductRow(r) ==
    LET pid == reqs[r].product_id
        children == ProductImages(images, pid)
                    \cup (IF reqs[r].expired THEN ProductOrders(orders, pid) ELSE {})
    IN /\ reqs[r].pc = "delete_orders"
       /\ reqs[r].orders = {}
       /\ IF children # {}
          THEN /\ products' = products
               /\ RequestStep(r, [reqs[r] EXCEPT !.pc = "done", !.raised = 500])
          ELSE /\ products' = Without(products, {pid})
               /\ RequestStep(r, [reqs[r] EXCEPT !.pc = "done"])
       /\ UNCHANGED <<orders, ids>>

\* A seller and a buyer have signed up; the seller's product 1 has its image
\* and had MaxStock units, of which the buyer has ordered one, or none yet.
\* The buyer sends a POST /orders for product 1 while the seller sends the
\* DELETE of it.
InitRace ==
    /\ users = (1 :> [email |-> "a@x", username |-> "ann", role |-> "seller",
                      password |-> hash_password(Plain("pw1"))])
            @@ (2 :> [email |-> "b@x", username |-> "bob", role |-> "buyer",
                      password |-> hash_password(Plain("pw1"))])
    /\ images = (1 :> 1)
    /\ blobs = {1}
    /\ issued = {create_access_token(1, "a@x", 0), create_access_token(2, "b@x", 0)}
    /\ now = 0
    /\ resp = Response("none", 0)
    /\ \E had \in 0..1 :
          /\ products = (1 :> [product_owner_id |-> 1, in_stock |-> TRUE,
                               number_in_stock |-> MaxStock - had])
          /\ orders = [o \in 1..had |-> [product_id |-> 1, user_id |-> 2, quantity |-> 1]]
          /\ ids = [user |-> 2, product |-> 1, order |-> had, blob |-> 1]
    /\ \E q \in 1..MaxStock :
          reqs = (1 :> Request(2, <<[product_id |-> 1, quantity |-> q]>>))
              @@ (2 :> DeleteRequest(1, 1))

NextRace ==
    \/ \E r \in DOMAIN reqs : GetProduct(r)
    \/ \E r \in DOMAIN reqs : VerifyStock(r)
    \/ \E r \in DOMAIN reqs : SaveOrder(r)
    \/ \E r \in DOMAIN reqs : RefreshProduct(r)
    \/ \E r \in DOMAIN reqs : SaveStock(r)
    \/ \E r \in DOMAIN reqs : LoadProduct(r)
    \/ \E r \in DOMAIN reqs : DeleteImage(r)
    \/ \E r \in DOMAIN reqs : LoadOrders(r)
    \/ \E r \in DOMAIN reqs : DeleteOrderRow(r)
    \/ \E r \in DOMAIN reqs : DeleteProductRow(r)

SpecRace == InitRace /\ [][NextRace]_vars

\* ------------------------------------------------ identity and tokens only
NextAuth ==
    \/ \E e \in Emails, n \in Usernames, r \in Roles : CreateUser(e, n, r, "pw1")
    \/ \E e \in Emails, p \in PlainPasswords : Login(e, p)
    \/ \E t \in Tokens, u \in UserIds, f \in UserUpdates : UpdateUser(t, u, f)
    \/ \E t \in Tokens, u \in UserIds : DeleteUser(t, u)
    \/ \E t \in Tokens : GetMe(t)
    \/ Tick

SpecAuth == Init /\ [][NextAuth]_vars

\* ================================================================ properties
\* The caller a token resolves to in the current state.
Caller(t) == get_current_user(t, users, now)

\* The quantity the items of a request ask of product p, in all.
RECURSIVE Asked(_, _)
Asked(items, p) ==
    IF items = << >> THEN 0
    ELSE (IF Head(items).product_id = p THEN Head(items).quantity ELSE 0)
         + Asked(Tail(items), p)

\* C1: in every reachable state every product has number_in_stock >= 0 and
\* in_stock equal to (number_in_stock > 0).
C1_StockConsistent ==
    \A p \in DOMAIN products :
        /\ products[p].number_in_stock >= 0
        /\ products[p].in_stock = (products[p].number_in_stock > 0)

\* Item i of the request asks more than the stock of a product in stock.
AsksTooMuch(items, i) ==
    /\ items[i].product_id \in DOMAIN products
    /\ products[items[i].product_id].in_stock
    /\ items[i].quantity > products[items[i].product_id].number_in_stock

\* C3 as stated: a createOrder request that contains an item asking more than
\* the number_in_stock of an in-stock product is answered 400, and leaves the
\* number_in_stock of that product as it was.
C3_AnyItemTooMuch ==
    \A t \in issued, items \in ItemLists :
        LET r == create_order(State, t, items)
        IN Caller(t) # NoId =>
              \A i \in 1..Len(items) :
                 AsksTooMuch(items, i) =>
                    /\ r.resp.status = 400
                    /\ r.state.products[items[i].product_id].number_in_stock
                           = products[items[i].product_id].number_in_stock

\* C3 amended: when the item asking too much is the first item the loop
\* refuses (the items before it are all accepted) and no item before it
\* names the same product, the request is answered 400 and the
\* number_in_stock of that product is as it was.
C3_FirstRefusedTooMuch ==
    \A t \in issued, items \in ItemLists :
        LET r == create_order(State, t, items)
        IN Caller(t) # NoId =>
              \A i \in 1..Len(items) :
                 /\ AsksTooMuch(items, i)
                 /\ OrderCrud_create(State, SubSeq(items, 1, i - 1), Caller(t)).raised = 0
                 /\ \A j \in 1..(i - 1) : items[j].product_id # items[i].product_id
                 => /\ r.resp.status = 400
                    /\ r.state.products[items[i].product_id].number_in_stock
                           = products[items[i].product_id].number_in_stock

\* A createOrder was just answered 400 and a product in stock is there whose
\* stock a quantity can exceed.
C3_Witness ==
    /\ resp.op = "create_order"
    /\ resp.status = 400
    /\ \E p \in DOMAIN products :
          products[p].in_stock /\ products[p].number_in_stock < MaxStock

\* C4: a createOrder whose lines were all created leaves every product with
\* number_in_stock n - q, q the quantity ordered of it; a product ordered has
\* in_stock false exactly when n - q = 0, else true, and when it is false an
\* order of 1 for it is answered 409.
C4_OrderArithmetic ==
    \A t \in issued, items \in ItemLists :
        LET r == create_order(State, t, items)
        IN Caller(t) # NoId /\ r.resp.returned =>
              \A i \in 1..Len(items) :
                 LET p == items[i].product_id
                     left == products[p].number_in_stock - Asked(items, p)
                 IN /\ r.state.products[p].number_in_stock = left
                    /\ r.state.products[p].in_stock = (left # 0)
                    /\ left = 0 =>
                          create_order(r.state, t, <<[product_id |-> p, quantity |-> 1]>>)
                              .resp.status = 409

\* The lines of a createOrder were just created, and the product of the last
\* of them is left with 0 in stock and in_stock false.
C4_Witness ==
    /\ resp.op = "create_order"
    /\ resp.returned
    /\ ids.order \in DOMAIN orders
    /\ orders[ids.order].product_id \in DOMAIN products
    /\ products[orders[ids.order].product_id].number_in_stock = 0
    /\ products[orders[ids.order].product_id].in_stock = FALSE

\* The quantity of the order lines of product p, in all.
RECURSIVE Ordered(_, _)
Ordered(os, p) ==
    IF DOMAIN os = {} THEN 0
    ELSE LET o == CHOOSE x \in DOMAIN os : TRUE
         IN (IF os[o].product_id = p THEN os[o].quantity ELSE 0)
            + Ordered(Without(os, {o}), p)

\* The requests whose loop ended without raising.
Succeeded == {r \in DOMAIN reqs : reqs[r].pc = "done" /\ reqs[r].raised = 0}

\* The quantity the requests in flight asked of product 1, in all.
Combined == reqs[1].items[1].quantity + reqs[2].items[1].quantity

\* C2: when two createOrder requests for the same product, interleaved in
\* any order, have both ended, the quantity of the order lines created is at
\* most the stock there was; exactly one of them succeeded when their
\* combined quantity exceeds it, and both only when it does not.
C2_NoOversell ==
    (\A r \in DOMAIN reqs : reqs[r].pc = "done") =>
        /\ Ordered(orders, 1) <= MaxStock
        /\ Combined > MaxStock => Cardinality(Succeeded) = 1
        /\ Cardinality(Succeeded) = 2 => Combined <= MaxStock

\* C5: updateProduct and deleteProduct by a user who is not the owner of the
\* product are answered 403, whatever the fields and the uploads are, and
\* leave every product, image row and order line as they were, and the
\* image files where they are.
C5_NonOwnerForbidden ==
    \A t \in issued, p \in DOMAIN products :
        Caller(t) # NoId /\ Caller(t) # products[p].product_owner_id =>
            /\ delete_product(State, t, p).resp.status = 403
            /\ delete_product(State, t, p).state = State
            /\ \A f \in ProductUpdates, k \in 0..MaxBlobs :
                  LET r == update_product(State, t, p, f, k)
                  IN /\ r.resp.status = 403
                     /\ Rows(r.state) = Rows(State)
                     /\ blobs \subseteq r.state.blobs

\* A user who does not own it was just refused the deletion of a product
\* that has an image and an order line.
C5_Witness ==
    /\ resp.op = "delete_product"
    /\ resp.status = 403
    /\ \E p \in DOMAIN products :
          /\ ProductImages(images, p) # {}
          /\ ProductOrders(orders, p) # {}
          /\ \E u \in DOMAIN users : products[p].product_owner_id # u

\* C6: DELETE /users/me of a user who owns a product or has placed an order
\* is answered 204, and after it the user, the user's products, the images
\* and order lines of those products and the order lines the user placed
\* are gone.
C6_DeleteUserCascades ==
    \A t \in issued :
        LET u == Caller(t)
            r == delete_user(State, t, u)
            mine == OwnedProducts(State, u)
        IN u # NoId /\ mine \cup PlacedOrders(State, u) # {} =>
              /\ r.resp.status = 204
              /\ u \notin DOMAIN r.state.users
              /\ DOMAIN r.state.products \cap mine = {}
              /\ \A b \in DOMAIN r.state.images : r.state.images[b] \notin mine
              /\ \A o \in DOMAIN r.state.orders :
                    r.state.orders[o].product_id \notin mine /\ r.state.orders[o].user_id # u

\* C7: after createUser(e, p) is answered 201, authenticate(e, p), at once or
\* later, is answered 201 with a token that verify_access_token accepts
\* and get_current_user resolves to the id of the user just created.
C7_RoundTrip ==
    \A e \in Emails, n \in Usernames, role \in Roles, p \in PlainPasswords :
        LET c == create_user(State, e, n, role, p)
        IN c.resp.status = 201 =>
              \A later \in now..MaxTime :
                 LET a == login([c.state EXCEPT !.now = later], e, p)
                 IN /\ a.status = 201
                    /\ verify_access_token(a.token, later).ok
                    /\ get_current_user(a.token, c.state.users, later) = c.state.ids.user
                    /\ c.state.users[c.state.ids.user].email = e

\* A login was just answered 201 and its token resolves to a user.
C7_Witness ==
    /\ resp.op = "login"
    /\ resp.status = 201
    /\ \E t \in issued : t.exp = now + TokenLife /\ Caller(t) \in DOMAIN users

\* No user has the e-mail e.
UnknownEmail(e) == \A u \in DOMAIN users : users[u].email # e

\* A user has the e-mail e, and p is not that user's password.
WrongPassword(e, p) ==
    \E u \in DOMAIN users :
        users[u].email = e /\ ~is_valid_password(Plain(p), users[u].password)

\* C8: authenticate answers an e-mail that no user has and a wrong password
\* for an e-mail that a user has with the same status and the same detail,
\* InvalidCredentials.
C8_UniformInvalidCredentials ==
    \A e1, e2 \in Emails, p1, p2 \in PlainPasswords :
        UnknownEmail(e1) /\ WrongPassword(e2, p2) =>
            /\ login(State, e1, p1) = login(State, e2, p2)
            /\ login(State, e1, p1).status = InvalidCredentials.status
            /\ login(State, e1, p1).detail = InvalidCredentials.detail

\* A login was just refused while one e-mail has a user, whose password a
\* client can get wrong, and another has none.
C8_Witness ==
    /\ resp.op = "login"
    /\ resp.status = InvalidCredentials.status
    /\ \E e1, e2 \in Emails, p \in PlainPasswords : UnknownEmail(e1) /\ WrongPassword(e2, p)

\* The token has a valid signature, is unexpired, carries sub and email, and
\* names a user that exists.
TokenGood(t) ==
    /\ t.sig = "valid"
    /\ t.exp > now
    /\ t.sub # NoSub
    /\ t.email # NoEmail
    /\ t.sub \in DOMAIN users

\* The outcomes of every token-protected handler for the token t.
Protected(t) ==
    {get_me(State, t)}
    \cup {update_user(State, t, u, f) : u \in UserIds, f \in UserUpdates}
    \cup {delete_user(State, t, u) : u \in UserIds}
    \cup {create_product(State, t, b, n, k) : b \in BOOLEAN, n \in StockInputs, k \in 1..MaxBlobs}
    \cup {update_product(State, t, p, f, k) : p \in ProductIds, f \in ProductUpdates, k \in 0..MaxBlobs}
    \cup {delete_product(State, t, p) : p \in ProductIds}
    \cup {create_order(State, t, items) : items \in ItemLists}
    \cup {update_order(State, t, o, items) : o \in OrderIds, items \in ItemLists}
    \cup {delete_order(State, t, o) : o \in OrderIds}

\* C9: a token-protected handler is answered 401, and changes nothing, unless
\* the token has a valid signature, is unexpired, carries sub and email and
\* names a user that exists now; with such a token it is not answered 401.
C9_TokenRequired ==
    \A t \in Tokens :
        \A r \in Protected(t) :
            IF TokenGood(t)
            THEN r.resp.status # 401
            ELSE r.resp.status = 401 /\ r.state = State

\* A request was just answered 401 while a token that login issued is still
\* unexpired and names a user who has been deleted.
C9_Witness ==
    /\ resp.status = 401
    /\ \E t \in issued :
          t.sig = "valid" /\ t.exp > now /\ t.sub \notin DOMAIN users

\* C10: updateOrder and deleteOrder by a user who is not the buyer of the
\* line are answered 403 whatever the items are (in stock or not, enough
\* stock or not), and leave every order line and every product as they were.
C10_NonBuyerForbidden ==
    \A t \in issued, o \in DOMAIN orders :
        Caller(t) # NoId /\ Caller(t) # orders[o].user_id =>
            /\ delete_order(State, t, o).resp.status = 403
            /\ delete_order(State, t, o).state = State
            /\ \A items \in ItemLists :
                  /\ update_order(State, t, o, items).resp.status = 403
                  /\ update_order(State, t, o, items).state = State

\* A user who is not the buyer of an order line was just refused its deletion.
C10_Witness ==
    /\ resp.op = "delete_order"
    /\ resp.status = 403
    /\ \E o \in DOMAIN orders, u \in DOMAIN users : orders[o].user_id # u

\* C11: deleteOrder by the buyer of the line is answered 204, removes that
\* line and no other, and leaves every product, with its number_in_stock
\* and in_stock, as it was: the quantity of the line is not returned.
C11_DeleteOrderFrame ==
    \A t \in issued, o \in DOMAIN orders :
        Caller(t) # NoId /\ Caller(t) = orders[o].user_id =>
            LET r == delete_order(State, t, o)
            IN /\ r.resp.status = 204
               /\ r.state = [State EXCEPT !.orders = Without(orders, {o})]

\* The buyer's line was just deleted, and the stock of a product is still
\* short of what the seller can have set: by the quantity of the line.
C11_Witness ==
    /\ resp.op = "delete_order"
    /\ resp.status = 204
    /\ ids.order > Cardinality(DOMAIN orders)
    /\ \E p \in DOMAIN products : products[p].number_in_stock = 0

\* C12: deleteProduct by the owner is answered 204, whether the files of the
\* images are there or not; after it the product, its image rows and files
\* and the order lines that name it are gone, and every other product,
\* image row, file and order line is as it was.
C12_DeleteProductCascade ==
    \A t \in issued, p \in DOMAIN products :
        Caller(t) # NoId /\ Caller(t) = products[p].product_owner_id =>
            LET r == delete_product(State, t, p)
            IN /\ r.resp.status = 204
               /\ r.state.products = Without(products, {p})
               /\ r.state.images = Without(images, ProductImages(images, p))
               /\ r.state.orders = Without(orders, ProductOrders(orders, p))
               /\ r.state.blobs = blobs \ ProductImages(images, p)
               /\ r.state.users = users

\* A product was just deleted although a file of its images was not found.
C12_Witness ==
    /\ resp.op = "delete_product"
    /\ resp.status = 204
    /\ resp.not_found # {}

\* C13: an update or a deletion of a user is answered 404 when the target
\* does not exist, whoever the caller is, and 403 when it exists and is not
\* the caller; neither changes anything, so that only an update or deletion
\* of the caller's own record is answered 200 or 204.
C13_OwnRecordOnly ==
    \A t \in Tokens, u \in UserIds \cup {NoId} :
        Caller(t) # NoId /\ u # Caller(t) =>
            LET refused == IF u \in DOMAIN users THEN 403 ELSE 404
            IN /\ delete_user(State, t, u).resp.status = refused
               /\ delete_user(State, t, u).state = State
               /\ \A f \in UserUpdates :
                     /\ update_user(State, t, u, f).resp.status = refused
                     /\ update_user(State, t, u, f).state = State

\* A user was just refused, 403, the update or deletion of another user.
C13_Witness ==
    /\ resp.op \in {"update_user", "delete_user"}
    /\ resp.status = 403
    /\ Cardinality(DOMAIN users) >= 2

\* The row would share its e-mail or its username with another user.
Duplicates(uid, row) ==
    \E other \in DOMAIN users \ {uid} :
        users[other].email = row.email \/ users[other].username = row.username

\* C14: no two users share an e-mail or a username; createUser with an
\* e-mail or username in use is answered 409 and adds no user, and an
\* updateUser to an e-mail or username of another user fails and changes
\* no user.
C14_UniqueUsers ==
    /\ \A u1, u2 \in DOMAIN users :
          u1 # u2 => users[u1].email # users[u2].email
                     /\ users[u1].username # users[u2].username
    /\ \A e \in Emails, n \in Usernames, role \in Roles, p \in PlainPasswords :
          Duplicates(NoId, [email |-> e, username |-> n]) =>
             /\ create_user(State, e, n, role, p).resp.status = 409
             /\ create_user(State, e, n, role, p).state = State
    /\ \A t \in Tokens, f \in UserUpdates :
          Caller(t) # NoId /\ Duplicates(Caller(t), sqlmodel_update(users[Caller(t)], f)) =>
             /\ update_user(State, t, Caller(t), f).resp.status >= 400
             /\ update_user(State, t, Caller(t), f).state = State

\* A user was just refused an update to the e-mail or username of another.
C14_Witness ==
    /\ resp.op = "update_user"
    /\ resp.status = 400
    /\ Cardinality(DOMAIN users) >= 2

\* C16: createProduct by a user whose role is not seller is answered 403 and
\* creates no product row, no image row and no image file.
C16_SellersOnly ==
    \A t \in issued :
        Caller(t) # NoId /\ users[Caller(t)].role # "seller" =>
            \A b \in BOOLEAN, n \in StockInputs, k \in 1..MaxBlobs :
                /\ create_product(State, t, b, n, k).resp.status = 403
                /\ create_product(State, t, b, n, k).state = State

\* A buyer was just refused the creation of a product.
C16_Witness ==
    /\ resp.op = "create_product"
    /\ resp.status = 403
    /\ \E u \in DOMAIN users : users[u].role = "buyer"

\* The rows whose foreign key the deletion of user u sets to NULL.
ChildRows(u) == OwnedProducts(State, u) \cup PlacedOrders(State, u)

\* C17: a database error in a repository operation is answered 400: the
\* unique violation of an update of a user, and the NOT NULL violation of
\* the deletion of a user who has products or orders.
C17_DatabaseErrorsAre400 ==
    \A t \in issued :
        Caller(t) # NoId =>
            /\ \A f \in UserUpdates :
                  Duplicates(Caller(t), sqlmodel_update(users[Caller(t)], f)) =>
                      update_user(State, t, Caller(t), f).resp.status = 400
            /\ ChildRows(Caller(t)) # {} =>
                  delete_user(State, t, Caller(t)).resp.status = 400

\* C18: every order line has a quantity >= 1, and a createOrder or
\* updateOrder with an item of quantity 0 or less changes no order line and
\* increases the number_in_stock of no product.
C18_PositiveQuantities ==
    /\ \A o \in DOMAIN orders : orders[o].quantity >= 1
    /\ \A t \in issued, items \in ItemLists :
          (\E i \in 1..Len(items) : items[i].quantity < 1) =>
             /\ create_order(State, t, items).state.orders = orders
             /\ \A p \in DOMAIN products :
                   create_order(State, t, items).state.products[p].number_in_stock
                       <= products[p].number_in_stock
             /\ \A o \in DOMAIN orders :
                   /\ update_order(State, t, o, items).state.orders = orders
                   /\ \A p \in DOMAIN products :
                         update_order(State, t, o, items).state.products[p].number_in_stock
                             <= products[p].number_in_stock

\* C19: a user whose role is buyer, whatever the role was before, is refused
\* every creation, update and deletion of a product, and none of them
\* changes a product or an image.
C19_BuyersOnlyBuy ==
    \A t \in issued :
        Caller(t) # NoId /\ users[Caller(t)].role = "buyer" =>
            /\ \A b \in BOOLEAN, n \in StockInputs, k \in 1..MaxBlobs :
                  create_product(State, t, b, n, k).resp.status = 403
            /\ \A p \in DOMAIN products :
                  /\ delete_product(State, t, p).resp.status = 403
                  /\ \A f \in ProductUpdates :
                        update_product(State, t, p, f, 0).resp.status = 403

\* What every list route answers for the limit, the skip being 0.
Lists(t, limit) ==
    {get_products(State, 0, limit), get_orders(State, 0, limit),
     get_users(State, t, 0, limit), get_current_user_orders(State, t, 0, limit),
     get_my_products(State, t, 0, limit)}
    \cup {get_user_orders(State, t, u, 0, limit) : u \in DOMAIN users}
    \cup {get_user_products(State, t, u, 0, limit) : u \in DOMAIN users}

\* C15: every list operation answers a limit above pagination_limit as it
\* answers pagination_limit itself: with a page, of pagination_limit
\* entities at most, and not with an error.
C15_LimitClamped ==
    \A t \in issued, limit \in LimitInputs :
        Caller(t) # NoId /\ limit >= 1 =>
            /\ \A page \in Lists(t, limit) :
                  page.status = 200 /\ Cardinality(page.data) <= pagination_limit
            /\ Lists(t, limit) = Lists(t, Min(limit, pagination_limit))

\* C20: an order line by its id, and the list of the orders of a user, are
\* answered with data only to the buyer who placed them.
C20_OrdersPrivate ==
    \A t \in Tokens :
        /\ \A o \in DOMAIN orders :
              get_order(State, o).status = 200 => Caller(t) = orders[o].user_id
        /\ \A u \in DOMAIN users :
              LET page == get_user_orders(State, t, u, 0, pagination_default_page)
              IN page.status = 200 /\ page.data # {} => Caller(t) = u

\* C21: the stock check, the insert of the order line and the decrement of
\* an item are one atomic unit: in every committed state the quantity of
\* every order line created of product 1 has been taken from its stock.
C21_LineAndDecrementAtomic ==
    products[1].number_in_stock = MaxStock - Ordered(orders, 1)

\* C22: the items of a createOrder are processed in the order submitted and
\* each check sees the decrements of the items before it: a request naming
\* the same in-stock product twice, for q1 and then q2, with q1 <= n < q1 + q2
\* of its stock n, creates the first line, takes q1 from the stock, and is
\* refused at the second item: 409 when q1 = n, else 400.
C22_SecondItemSeesFirst ==
    \A t \in issued, p \in DOMAIN products, q1 \in Quantities, q2 \in Quantities :
        LET n == products[p].number_in_stock
            r == create_order(State, t, <<[product_id |-> p, quantity |-> q1],
                                          [product_id |-> p, quantity |-> q2]>>)
        IN Caller(t) # NoId /\ products[p].in_stock /\ q1 <= n /\ n < q1 + q2 =>
              /\ r.resp.status = (IF q1 = n THEN 409 ELSE 400)
              /\ r.resp.lines = 1
              /\ r.state.orders = orders @@ ((ids.order + 1) :>
                     [product_id |-> p, user_id |-> Caller(t), quantity |-> q1])
              /\ r.state.products[p].number_in_stock = n - q1

\* A createOrder of two items was just refused for the stock at its second
\* item after creating the line of its first, and there is one product only:
\* both items name it.
C22_Witness ==
    /\ resp.op = "create_order"
    /\ resp.status \in {400, 409}
    /\ resp.lines = 1
    /\ DOMAIN products = {1}
    /\ orders[ids.order].product_id = 1

\* What C23 says of one item, given the state s1 the item is processed in,
\* the state after it and the status the request ended with: 404 when the
\* product is missing, else 409 when in_stock is false whatever the quantity,
\* else 400 when number_in_stock < quantity, and in these cases nothing is
\* persisted for the item; else the request does not end with the item.
ItemPrecedence(s1, item, after, status) ==
    LET pid == item.product_id
    IN IF pid \notin DOMAIN s1.products THEN status = 404 /\ after = s1
       ELSE IF s1.products[pid].in_stock = FALSE THEN status = 409 /\ after = s1
       ELSE IF s1.products[pid].number_in_stock < item.quantity
       THEN status = 400 /\ after = s1
       ELSE /\ status \notin {404, 409, 400}
            /\ after.products[pid].number_in_stock
                   = s1.products[pid].number_in_stock - item.quantity

\* C23: for each item of a createOrder and of an updateOrder, processed after
\* the items before it were accepted, the precedence is: product missing
\* -> 404; else in_stock false -> 409 whatever the quantity; else
\* number_in_stock < quantity -> 400; only when all pass is anything persisted
\* for the item (the line of a createOrder, the stock taken).
C23_Precedence ==
    \A t \in issued, items \in ItemLists :
        LET k == Len(items)
            front == SubSeq(items, 1, k - 1)
        IN Caller(t) # NoId /\ k >= 1 =>
              /\ LET before == OrderCrud_create(State, front, Caller(t))
                     r == create_order(State, t, items)
                 IN before.raised = 0 =>
                       /\ ItemPrecedence(before.state, items[k], r.state, r.resp.status)
                       /\ r.resp.lines = (IF r.resp.returned THEN k ELSE k - 1)
              /\ \A o \in DOMAIN orders :
                    LET before == OrderCrud_update(State, o, front)
                        r == update_order(State, t, o, items)
                    IN orders[o].user_id = Caller(t) /\ before.raised = 0 =>
                          ItemPrecedence(before.state, items[k], r.state, r.resp.status)

\* A createOrder or an updateOrder was just answered 409 while every product
\* there is has in_stock false and MaxStock units: the flag decided, for no
\* quantity exceeds the number.
C23_Witness ==
    /\ resp.op \in {"create_order", "update_order"}
    /\ resp.status = 409
    /\ DOMAIN products # {}
    /\ \A p \in DOMAIN products :
          products[p].in_stock = FALSE /\ products[p].number_in_stock = MaxStock

\* C24: a createOrder with n >= 1 items that are all accepted persists
\* exactly n new order lines, each with its item's product and quantity and
\* the caller as buyer, and completes with status 201 returning a line.
C24_CreatedAnd201 ==
    \A t \in issued, items \in ItemLists :
        LET r == create_order(State, t, items)
            n == Len(items)
        IN /\ Caller(t) # NoId
           /\ n >= 1
           /\ OrderCrud_create(State, items, Caller(t)).raised = 0
           => /\ DOMAIN r.state.orders = DOMAIN orders \cup (ids.order + 1)..(ids.order + n)
              /\ \A o \in DOMAIN orders : r.state.orders[o] = orders[o]
              /\ \A i \in 1..n :
                    r.state.orders[ids.order + i] =
                        [product_id |-> items[i].product_id, user_id |-> Caller(t),
                         quantity |-> items[i].quantity]
              /\ r.resp.status = 201
              /\ r.resp.returned

\* C25: an updateOrder by the buyer of the line that succeeds with items
\* i1..in, n >= 1, leaves the order lines as many as they were and the other
\* lines as they were, sets the product and the quantity of the line to
\* those of the last item, and takes from the stock of every product the
\* quantity the items ask of it and no less: the quantity the line held
\* before is not returned to the stock.
C25_UpdateOrder ==
    \A t \in issued, o \in DOMAIN orders, items \in ItemLists :
        LET r == update_order(State, t, o, items)
            n == Len(items)
        IN n >= 1 /\ r.resp.status = 200 =>
              /\ orders[o].user_id = Caller(t)
              /\ DOMAIN r.state.orders = DOMAIN orders
              /\ \A x \in DOMAIN orders \ {o} : r.state.orders[x] = orders[x]
              /\ r.state.orders[o] =
                    [orders[o] EXCEPT !.product_id = items[n].product_id,
                                      !.quantity = items[n].quantity]
              /\ DOMAIN r.state.products = DOMAIN products
              /\ \A p \in DOMAIN products :
                    r.state.products[p].number_in_stock
                        = products[p].number_in_stock - Asked(items, p)

\* An updateOrder of two items just succeeded: the line holds the second.
C25_Witness ==
    /\ resp.op = "update_order"
    /\ resp.status = 200
    /\ resp.items = 2

\* No step changes the owner of a product that stays or the buyer of an
\* order line that stays.
OwnersKept ==
    /\ \A p \in DOMAIN products \cap DOMAIN products' :
          products'[p].product_owner_id = products[p].product_owner_id
    /\ \A o \in DOMAIN orders \cap DOMAIN orders' :
          orders'[o].user_id = orders[o].user_id

\* C26: the product_owner_id of an existing product and the user_id of an
\* existing order line never change, whatever operation is performed.
C26_OwnersNeverChange == [][OwnersKept]_vars

\* An updateProduct was just answered 200 while an order line is there: the
\* product written still has its owner, the line its buyer.
C26_Witness ==
    /\ resp.op = "update_product"
    /\ resp.status = 200
    /\ \E p \in DOMAIN products : products[p].product_owner_id = 1
    /\ \E o \in DOMAIN orders : orders[o].user_id = 2

\* C27: the stored password of every user is the hash of the password given
\* at signup, so that the login with the e-mail and that password succeeds,
\* in particular after updates of the profile.
C27_PasswordIsSignupHash ==
    \A u \in DOMAIN users :
        /\ users[u].password = hash_password(Plain("pw1"))
        /\ login(State, users[u].email, "pw1").status = 201

\* C28: a createOrder or an updateOrder that fails at an item (404, 409 or
\* 400) leaves the order lines and the products exactly as they were before
\* the request: nothing of the items before the failing one is kept.
C28_AllOrNothing ==
    \A t \in issued, items \in ItemLists :
        /\ LET r == create_order(State, t, items)
           IN r.resp.status \in {404, 409, 400} =>
                 r.state.orders = orders /\ r.state.products = products
        /\ \A o \in DOMAIN orders :
              LET r == update_order(State, t, o, items)
              IN r.resp.status \in {404, 409, 400} =>
                    r.state.orders = orders /\ r.state.products = products

\* C30: a createOrder with an empty item list persists nothing, changes no
\* stock, and ends with an order line returned (201) or with a domain error
\* (404, 409, 400, or the 422 of a validation error), not with an unhandled
\* internal error.
C30_EmptyListHandled ==
    \A t \in issued :
        LET r == create_order(State, t, << >>)
        IN Caller(t) # NoId =>
              /\ r.state = State
              /\ r.resp.status \in {201, 404, 409, 400, 422}

\* C29: in every committed state, the states between the commits of a
\* deleteProduct and those interleaved with a concurrent createOrder
\* included, every order line references an existing product and an
\* existing buyer, every image row an existing product, and every product
\* an existing owner.
C29_ReferentialIntegrity ==
    /\ \A o \in DOMAIN orders :
          orders[o].product_id \in DOMAIN products /\ orders[o].user_id \in DOMAIN users
    /\ \A b \in DOMAIN images : images[b] \in DOMAIN products
    /\ \A p \in DOMAIN products : products[p].product_owner_id \in DOMAIN users

====
